---- MODULE Spec2Model ----
(***************************************************************************)
(* A model of the ORCA archive (kwgws/orca): the Scan / Document / Corpus  *)
(* / Search / Megadoc tables, the full-text index, the on-disk Megadoc     *)
(* files, the asynchronous tasks create_search, create_megadoc and         *)
(* upload_megadoc (one action per stretch of code between two suspension   *)
(* points), and the "loading" flag of the load orchestrator and the HTTP   *)
(* handlers.                                                               *)
(*                                                                         *)
(* Guids are modelled by the position of a row in its table (rows are      *)
(* never renumbered; a deleted Document or Scan keeps its position and is  *)
(* marked deleted, which is also what the in-memory objects of the ORM     *)
(* keep after session.delete).  0 stands for None.                         *)
(***************************************************************************)
EXTENDS Integers, Sequences, FiniteSets, TLC

\* ------------------------------------------------------------------ bounds
MaxDocs == 2
MaxCorpuses == 2
MaxSearches == 1
MaxMegadocs == 2
MaxTasks == 2
MaxClock == 1
MaxLoads == 2
MaxAlbums == 2
MaxQueue == 2
\* config.db.retries (3 by default), kept small here
Retries == 1
\* config.db.batch_size (10000 by default), kept small here
BatchSize == 3
\* how many retry wrappers a call passes through (save: 1, Base.create: 2,
\* create_from_file: 3, import_documents: 4)
MaxDepth == 4
\* calls of a model method made on one session
MaxCalls == 2

\* values handed to set_status
StatusInputs == {"PENDING", "STARTED", "SENDING", "SUCCESS", "success", "INVALID"}

Stems == {"000001_2022-09-27_13-12-42_image_5992"}
SearchStrs == {"He", "Hel"}
InputTypes == {".txt", ".TXT", ".pdf"}

VARIABLES
    now,         \* the wall clock
    importTime,  \* the value dt_now() returned when orca.model.base was imported
    scans,       \* table scans
    docs,        \* table documents
    corpuses,    \* table corpuses, each row with its corpus_documents rows
    index,       \* guids stored in the full-text index
    searches,    \* table searches, each row with its documents list
    megadocs,    \* table megadocs
    files,       \* on-disk Megadoc files: the sections appended so far
    bucket,      \* Megadocs that the object store has received
    tasks,       \* the in-flight calls of create_search / create_megadoc / upload_megadoc
    loading,     \* the flag "loading" of the hash orca:flags
    loads,       \* the ingest/index runs started by start_load_documents
    httpStatus,  \* status of the last HTTP response
    httpSeq,     \* flips with every HTTP request served
    enqueued,    \* number of searches that POST /search has handed to start_search
    pipe,        \* the run of search_to_megadocs
    unreadable,  \* Documents whose text file cannot be read
    blank,       \* guids stored in the index with an empty content
    imp,         \* the run of import_documents
    retry,       \* a call through the retry wrappers
    db_lock,     \* the task that holds db_lock, or 0
    sessions,    \* the session of each task that works on the database
    durable,     \* the changes that a COMMIT has made durable
    startup      \* the engine, the schema and the call that initializes them

dbvars == <<scans, docs, corpuses, index, searches, megadocs, files, bucket>>
loadvars == <<loading, loads, httpStatus, httpSeq, enqueued>>
textvars == <<unreadable, blank>>
savevars == <<db_lock, sessions, durable, startup>>
auxvars == <<textvars, imp, retry, savevars>>
vars == <<now, importTime, scans, docs, corpuses, index, searches, megadocs,
          files, bucket, tasks, loading, loads, httpStatus, httpSeq, enqueued,
          pipe, unreadable, blank, imp, retry, db_lock, sessions, durable,
          startup>>

\* ----------------------------------------------------------------- helpers
Range(s) == {s[i] : i \in 1..Len(s)}

Min(S) == CHOOSE x \in S : \A y \in S : x <= y

RECURSIVE SetToSeq(_)
\* the elements of a set of numbers in ascending order
SetToSeq(S) == IF S = {} THEN <<>> ELSE <<Min(S)>> \o SetToSeq(S \ {Min(S)})

\* the orders in which the elements of a set can be listed
Orders(S) ==
    {seq \in [1..Cardinality(S) -> S] :
        \A i, j \in 1..Cardinality(S) : seq[i] = seq[j] => i = j}

\* str.lower() on the file types in use
Lower(ft) == IF ft = ".TXT" THEN ".txt" ELSE ft

\* str.upper() on the status strings in use
Upper(st) == IF st = "success" THEN "SUCCESS" ELSE st

\* position of a status in the declared lifecycle
Rank(st) ==
    CASE st = "PENDING" -> 0
      [] st = "STARTED" -> 1
      [] st = "SENDING" -> 2
      [] st = "SUCCESS" -> 3
      [] OTHER -> 0 - 1

\* a progress value num/den (a float in the code)
Frac(n, d) == [num |-> n, den |-> d]
FracLeq(a, b) == a.num * b.den <= b.num * a.den

\* ------------------------------------------------------------------ tables
LiveDocs == {d \in 1..Len(docs) : ~docs[d].deleted}
LiveScans == {s \in 1..Len(scans) : ~scans[s].deleted}

\* Base.get for a Document: the row, or None
Document_get(guid) == IF guid \in LiveDocs THEN guid ELSE 0

\* Base.get_all for Documents (rows in table order)
Document_get_all == SetToSeq(LiveDocs)

\* Document.get_all_for_scan
get_all_for_scan(sc) == {d \in LiveDocs : docs[d].scan = sc}

RECURSIVE InsertByCreatedAt(_, _)
InsertByCreatedAt(sorted, d) ==
    IF sorted = <<>> THEN <<d>>
    ELSE IF docs[d].created_at < docs[Head(sorted)].created_at
         THEN <<d>> \o sorted
         ELSE <<Head(sorted)>> \o InsertByCreatedAt(Tail(sorted), d)

RECURSIVE StableSort(_, _)
StableSort(sorted, rest) ==
    IF rest = <<>> THEN sorted
    ELSE StableSort(InsertByCreatedAt(sorted, Head(rest)), Tail(rest))

\* sorted(documents, key=lambda doc: doc.created_at), a stable sort
SortByCreatedAt(seq) == StableSort(<<>>, seq)

\* Document.get_text, as a code of the text: every text file is distinct,
\* and a file that cannot be read yields the empty string (code 0)
get_text(d) == IF d \in unreadable THEN 0 ELSE d

RECURSIVE Crc(_, _)
Crc(h, seq) ==
    IF seq = <<>> THEN h ELSE Crc((h * 31 + get_text(Head(seq))) % 256, Tail(seq))

\* create_checksum over the concatenated texts (a small rolling checksum
\* stands for CRC32)
create_checksum(seq) == Crc(7, seq)

\* what loading Corpus.documents yields: the corpus_documents rows joined
\* with the documents table
CorpusDocuments(c) == {d \in Range(corpuses[c].documents) : d \in LiveDocs}

\* Base.get_latest: order_by(desc(created_at)).first(); which of several
\* rows with the same created_at comes first is left to the database
get_latest(rows) ==
    {c \in 1..Len(rows) : \A o \in 1..Len(rows) : rows[o].created_at <= rows[c].created_at}

\* Search.document_count
SearchDocumentCount(s) == Len(searches[s].documents)

\* Base.get for a Search: the row, or None
Search_get(guid) ==
    IF guid \in 1..Len(searches) /\ ~searches[guid].deleted THEN guid ELSE 0

\* Search.megadocs
SearchMegadocs(s) == {m \in 1..Len(megadocs) : megadocs[m].search = s}

\* ------------------------------------------------------------------- tasks
Idle == [kind |-> "idle", pc |-> "idle", search |-> 0, megadoc |-> 0,
         filetype |-> "", hits |-> {}, todo |-> <<>>, i |-> 0, attempt |-> 0,
         sent |-> 0, slept |-> 0, ret |-> 0, err |-> ""]

Free(t) == tasks[t].pc \in {"idle", "done", "failed"}
Running(t) == ~Free(t)

\* a new call takes the first free slot
Slot(t) == Free(t) /\ \A u \in 1..MaxTasks : Free(u) => t <= u

\* a call that has ended, with what it returned or raised
Done(task, r) == [Idle EXCEPT !.kind = task.kind, !.pc = "done", !.ret = r]
Fail(task, e) == [Idle EXCEPT !.kind = task.kind, !.pc = "failed", !.err = e]

\* an ingest/index run: the chord of load_documents tasks (one per album),
\* then index_documents, then reset_lock
NoLoad == [phase |-> "idle", albums |-> 0]

\* search_to_megadocs not called yet
NoPipe == [pc |-> "idle", types |-> <<>>, search |-> 0, err |-> ""]

\* import_documents not called yet
NoImport == [pc |-> "idle", files |-> <<>>, i |-> 0, scans |-> 0, docs |-> 0,
             start |-> 0, attempt |-> 0, err |-> ""]

\* no call through the retry wrappers yet
NoCall == [pc |-> "idle", depth |-> 0, attempt |-> <<>>, body |-> 0, sleeps |-> 0,
           last |-> "", err |-> ""]

\* a session without changes
\* _engine and _AsyncSessionLocal are None after import, no schema exists,
\* and neither init_database nor init_async_engine has been called
NoStartup == [engine |-> FALSE, schema |-> FALSE, call |-> "", pc |-> "idle"]

NoSession == [pc |-> "idle", op |-> "", immediate |-> FALSE, change |-> <<>>,
              pending |-> {}, tx |-> FALSE, n |-> 0, attempt |-> 0, err |-> ""]

Init ==
    /\ now = 0
    /\ importTime = 0
    /\ scans = <<>>
    /\ docs = <<>>
    /\ corpuses = <<>>
    /\ index = {}
    /\ searches = <<>>
    /\ megadocs = <<>>
    /\ files = <<>>
    /\ bucket = {}
    /\ tasks = [t \in 1..MaxTasks |-> Idle]
    /\ loading = FALSE
    /\ loads = [l \in 1..MaxLoads |-> NoLoad]
    /\ httpStatus = 0
    /\ httpSeq = 0
    /\ enqueued = 0
    /\ pipe = NoPipe
    /\ unreadable = {}
    /\ blank = {}
    /\ imp = NoImport
    /\ retry = NoCall
    /\ db_lock = 0
    /\ sessions = [t \in 1..MaxTasks |-> NoSession]
    /\ durable = {}
    /\ startup = NoStartup

\* ------------------------------------------------------------------- clock
Tick ==
    /\ now < MaxClock
    /\ now' = now + 1
    /\ UNCHANGED <<pipe, auxvars, importTime, dbvars, tasks, loadvars>>

\* The process ends and a new one starts: the module is imported again, and
\* the calls that were in flight are gone.
Restart ==
    /\ importTime < now
    /\ importTime' = now
    /\ tasks' = [t \in 1..MaxTasks |-> Idle]
    /\ UNCHANGED <<pipe, auxvars, now, dbvars, loadvars>>

\* ------------------------------------------------------ Scans and Documents
\* Document.create_from_file(path, scan): a new Document, and a new Scan
\* when none is given
create_from_file(stem, scan) ==
    /\ Len(docs) < MaxDocs
    /\ scan \in {0} \cup LiveScans
    /\ LET sc == IF scan = 0 THEN Len(scans) + 1 ELSE scan
       IN /\ scans' = IF scan = 0
                      THEN Append(scans, [stem |-> stem, created_at |-> importTime,
                                          deleted |-> FALSE])
                      ELSE scans
          /\ docs' = Append(docs, [scan |-> sc, stem |-> stem,
                                   created_at |-> importTime, deleted |-> FALSE])
    /\ UNCHANGED <<pipe, auxvars, now, importTime, corpuses, index, searches, megadocs, files,
                   bucket, tasks, loadvars>>

\* Base.delete on a Document
Document_delete(d) ==
    /\ d \in LiveDocs
    /\ docs' = [docs EXCEPT ![d].deleted = TRUE]
    /\ UNCHANGED <<pipe, auxvars, now, importTime, scans, corpuses, index, searches, megadocs,
                   files, bucket, tasks, loadvars>>

\* Scan.delete without the loop over the Documents of the Scan
Scan_delete_alone(sc) ==
    /\ sc \in LiveScans
    /\ scans' = [scans EXCEPT ![sc].deleted = TRUE]
    /\ UNCHANGED <<pipe, auxvars, now, importTime, docs, corpuses, index, searches,
                   megadocs, files, bucket, tasks, loadvars>>

\* Scan.delete: the Documents of the Scan, then the Scan
Scan_delete(sc) ==
    /\ sc \in LiveScans
    /\ docs' = [d \in 1..Len(docs) |->
                   IF d \in get_all_for_scan(sc)
                   THEN [docs[d] EXCEPT !.deleted = TRUE] ELSE docs[d]]
    /\ scans' = [scans EXCEPT ![sc].deleted = TRUE]
    /\ UNCHANGED <<pipe, auxvars, now, importTime, corpuses, index, searches, megadocs,
                   files, bucket, tasks, loadvars>>

\* ---------------------------------------------------------------- Ingestor
\* the files given to import_documents, each by the name of its parent
\* directory and its stem
GoodFiles ==
    {[album |-> "2022-09", stem |-> "000001_2022-09-27_13-12-42_image_5992"],
     [album |-> "2022-09", stem |-> "000002_2022-09-27_13-12-56_image_5993"]}
BadFiles ==
    {[album |-> "", stem |-> "badfilename"],
     [album |-> "2022-09", stem |-> "000001_invalid-date_format_image_5992"],
     [album |-> "", stem |-> "000003_2022-09-27_13-13-04_image_5994"]}
FileNames == GoodFiles \cup BadFiles

\* stem.split("_") on the stems in use
split(stem) ==
    CASE stem = "000001_2022-09-27_13-12-42_image_5992"
             -> <<"000001", "2022-09-27", "13-12-42", "image", "5992">>
      [] stem = "000002_2022-09-27_13-12-56_image_5993"
             -> <<"000002", "2022-09-27", "13-12-56", "image", "5993">>
      [] stem = "000003_2022-09-27_13-13-04_image_5994"
             -> <<"000003", "2022-09-27", "13-13-04", "image", "5994">>
      [] stem = "000001_invalid-date_format_image_5992"
             -> <<"000001", "invalid-date", "format", "image", "5992">>
      [] OTHER -> <<stem>>

\* whether dateutil parses "<date> <time with : for ->" (the values in use)
parse_datetime(date, time) ==
    date = "2022-09-27" /\ time \in {"13-12-42", "13-12-56", "13-13-04"}

\* create_from_file gets past its two checks of the file name
Parsable(f) ==
    /\ ~(Len(split(f.stem)) < 3 \/ f.album = "")
    /\ parse_datetime(split(f.stem)[2], split(f.stem)[3])

\* helpers.do(n, n_max, batch_size)
do(n, n_max, batch_size) ==
    (n = 0) \/ ((n + 1) % batch_size = 0) \/ (n + 1 = n_max)

\* import_documents(data): the sorted list of files
import_documents_start(data) ==
    /\ imp.pc \in {"idle", "done", "failed"}
    /\ imp' = [NoImport EXCEPT !.pc = "run", !.files = data, !.attempt = 1,
                               !.scans = Len(scans), !.docs = Len(docs),
                               !.start = Len(docs)]
    /\ UNCHANGED <<pipe, textvars, retry, savevars, now, importTime, dbvars,
                   tasks, loadvars>>

\* one turn of the loop: Document.create_from_file(file, scan=None,
\* immediate=do_batch).  A file name that cannot be parsed raises TypeError,
\* which nothing in import_documents catches: the run ends, and the rows the
\* session had not committed yet are gone with the session.
import_documents_file ==
    LET f == imp.files[imp.i + 1]
        do_batch == do(imp.i, Len(imp.files), BatchSize)
    IN /\ imp.pc = "run" /\ imp.i < Len(imp.files)
       /\ IF ~Parsable(f)
          THEN /\ imp' = [imp EXCEPT !.pc = "failed", !.err = "TypeError"]
               /\ scans' = SubSeq(scans, 1, imp.scans)
               /\ docs' = SubSeq(docs, 1, imp.docs)
          ELSE /\ Len(docs) < MaxDocs
               /\ scans' = Append(scans, [stem |-> f.stem, created_at |-> importTime,
                                          deleted |-> FALSE])
               /\ docs' = Append(docs, [scan |-> Len(scans) + 1, stem |-> f.stem,
                                        created_at |-> importTime, deleted |-> FALSE])
               /\ imp' = [imp EXCEPT !.i = imp.i + 1,
                             !.scans = IF do_batch THEN Len(scans) + 1 ELSE imp.scans,
                             !.docs = IF do_batch THEN Len(docs) + 1 ELSE imp.docs]
       /\ UNCHANGED <<pipe, textvars, retry, savevars, now, importTime, corpuses,
                      index, searches, megadocs, files, bucket, tasks, loadvars>>

\* a database operation of the current turn raises one of TRANS_EXC, and
\* the wrappers inside have raised it again: the failed save has rolled the
\* session back, and handle_sql_errors around import_documents raises the
\* error after the last attempt and otherwise, after the sleep, calls
\* import_documents again with the same arguments
import_documents_transient ==
    /\ imp.pc = "run" /\ imp.i < Len(imp.files)
    /\ scans' = SubSeq(scans, 1, imp.scans)
    /\ docs' = SubSeq(docs, 1, imp.docs)
    /\ imp' = IF imp.attempt <= Retries
              THEN [imp EXCEPT !.i = 0, !.attempt = imp.attempt + 1]
              ELSE [imp EXCEPT !.pc = "failed",
                               !.err = "OperationalError: database is locked"]
    /\ UNCHANGED <<pipe, textvars, retry, savevars, now, importTime, corpuses,
                   index, searches, megadocs, files, bucket, tasks, loadvars>>

\* the loop is over: import_documents returns
import_documents_end ==
    /\ imp.pc = "run" /\ imp.i = Len(imp.files)
    /\ imp' = [imp EXCEPT !.pc = "done"]
    /\ UNCHANGED <<pipe, textvars, retry, savevars, now, importTime, dbvars,
                   tasks, loadvars>>

\* ----------------------------------------------------------------- Indexer
\* Corpus.create: the row a snapshot of all current Documents adds
Corpus_create ==
    LET documents == SortByCreatedAt(Document_get_all)
    IN [checksum |-> create_checksum(documents),
        documents |-> documents,
        document_count |-> Len(Document_get_all),
        created_at |-> importTime]

\* create_index without the wipe of the previous index in _create_new_index:
\* the Documents are added to the entries that are there
create_index_keeping ==
    /\ Len(corpuses) < MaxCorpuses
    /\ corpuses' = Append(corpuses, Corpus_create)
    /\ index' = index \cup Range(Document_get_all)
    /\ blank' = (blank \ Range(Document_get_all))
                   \cup {d \in Range(Document_get_all) : get_text(d) = 0}
    /\ UNCHANGED <<pipe, unreadable, imp, retry, savevars, now, importTime,
                   scans, docs, searches, megadocs, files, bucket, tasks,
                   loadvars>>

\* create_index: snapshot a Corpus, then rebuild the index from scratch
create_index ==
    /\ Len(corpuses) < MaxCorpuses
    /\ corpuses' = Append(corpuses, Corpus_create)
    /\ index' = Range(Document_get_all)
    /\ blank' = {d \in Range(Document_get_all) : get_text(d) = 0}
    /\ UNCHANGED <<pipe, unreadable, imp, retry, savevars, now, importTime,
                   scans, docs, searches, megadocs, files, bucket, tasks,
                   loadvars>>

\* the text file of a Document is removed or made unreadable
remove_text(d) ==
    /\ d \in LiveDocs \ unreadable
    /\ unreadable' = unreadable \cup {d}
    /\ UNCHANGED <<pipe, blank, imp, retry, savevars, now, importTime, dbvars,
                   tasks, loadvars>>

\* ---------------------------------------------------------------- Searcher
\* the statuses that set_status accepts
status_set == {"PENDING", "STARTED", "SENDING", "SUCCESS"}

\* the value the column updated_at takes when a row is written with new
\* values: onupdate=dt_now(), a datetime computed when the module was
\* imported
onupdate(row, new) ==
    IF new = row THEN row ELSE [new EXCEPT !.updated_at = importTime]

\* StatusMixin.set_status: the row with the status stored as given; a value
\* outside the four accepted ones (compared in upper case) raises ValueError
\* and leaves the row as it is
set_status(row, status) ==
    IF Upper(status) \in status_set
    THEN onupdate(row, [row EXCEPT !.status = status])
    ELSE row

\* Search.create(search_str, corpus): the new row, PENDING
Search_create(search_str, corpus) ==
    [search_str |-> search_str, corpus |-> corpus, documents |-> <<>>,
     status |-> "PENDING", created_at |-> importTime, updated_at |-> importTime,
     deleted |-> FALSE]

\* Search.add_document
add_document(row, d) ==
    IF d \in Range(row.documents) THEN row
    ELSE [row EXCEPT !.documents = Append(row.documents, d)]

\* create_search with the length check `<= 3` in place of `< 3`
create_search_start_strict(t, search_str, hits) ==
    /\ Slot(t)
    /\ hits \subseteq index \ blank
    /\ IF Len(search_str) <= 3 \/ corpuses = <<>>
       THEN /\ hits = {}
            /\ tasks' = [tasks EXCEPT ![t] = Fail([Idle EXCEPT !.kind = "search"],
                                                  "ValueError")]
            /\ UNCHANGED searches
       ELSE /\ Len(searches) < MaxSearches
            /\ \E corpus \in get_latest(corpuses) :
                   searches' = Append(searches, Search_create(search_str, corpus))
            /\ \E results \in Orders(hits) :
                   tasks' = [tasks EXCEPT ![t] =
                       [Idle EXCEPT !.kind = "search", !.pc = "hits",
                                    !.search = Len(searches) + 1,
                                    !.hits = hits, !.todo = results]]
    /\ UNCHANGED <<auxvars, now, importTime, scans, docs, corpuses, index, megadocs,
                   files, bucket, loadvars>>

\* create_search up to the end of the index query: the checks of the
\* input, the latest Corpus, the new Search row, the hits of the query in
\* the order in which the index returns them
create_search_start(t, search_str, hits) ==
    /\ Slot(t)
    /\ hits \subseteq index \ blank
    /\ IF Len(search_str) < 3 \/ corpuses = <<>>
       THEN /\ hits = {}
            /\ tasks' = [tasks EXCEPT ![t] = Fail([Idle EXCEPT !.kind = "search"],
                                                  "ValueError")]
            /\ UNCHANGED searches
       ELSE /\ Len(searches) < MaxSearches
            /\ \E corpus \in get_latest(corpuses) :
                   searches' = Append(searches, Search_create(search_str, corpus))
            /\ \E results \in Orders(hits) :
                   tasks' = [tasks EXCEPT ![t] =
                       [Idle EXCEPT !.kind = "search", !.pc = "hits",
                                    !.search = Len(searches) + 1,
                                    !.hits = hits, !.todo = results]]
    /\ UNCHANGED <<auxvars, now, importTime, scans, docs, corpuses, index, megadocs,
                   files, bucket, loadvars>>

\* the loop with set_status("SUCCESS") inside it
create_search_hit_success_inside(t) ==
    LET task == tasks[t]
        s == task.search
        guid == Head(task.todo)
    IN /\ task.kind = "search" /\ task.pc = "hits" /\ task.todo # <<>>
       /\ IF Document_get(guid) = 0
          THEN /\ tasks' = [tasks EXCEPT ![t] = Fail(task, "LookupError")]
               /\ UNCHANGED searches
          ELSE /\ searches' = [searches EXCEPT ![s] =
                     set_status(add_document(searches[s], guid), "SUCCESS")]
               /\ tasks' = [tasks EXCEPT ![t].todo = Tail(task.todo)]
       /\ UNCHANGED <<auxvars, now, importTime, scans, docs, corpuses, index, megadocs,
                      files, bucket, loadvars>>

\* one turn of the loop over the hits
create_search_hit(t) ==
    LET task == tasks[t]
        s == task.search
        guid == Head(task.todo)
    IN /\ task.kind = "search" /\ task.pc = "hits" /\ task.todo # <<>>
       /\ IF Document_get(guid) = 0
          THEN /\ tasks' = [tasks EXCEPT ![t] = Fail(task, "LookupError")]
               /\ UNCHANGED searches
          ELSE IF guid \in Range(searches[s].documents)
          THEN /\ tasks' = [tasks EXCEPT ![t].todo = Tail(task.todo)]
               /\ UNCHANGED searches
          ELSE /\ searches' = [searches EXCEPT ![s] =
                     add_document(IF searches[s].status = "STARTED"
                                  THEN searches[s]
                                  ELSE set_status(searches[s], "STARTED"), guid)]
               /\ tasks' = [tasks EXCEPT ![t].todo = Tail(task.todo)]
       /\ UNCHANGED <<auxvars, now, importTime, scans, docs, corpuses, index, megadocs,
                      files, bucket, loadvars>>

\* a database operation of the loop raises one of TRANS_EXC, and the
\* wrappers inside have raised it again: handle_sql_errors around
\* create_search raises the error after the last attempt and otherwise,
\* after the sleep, calls create_search again with the same arguments, which
\* takes the latest Corpus, creates a Search and queries the index anew
create_search_transient(t) ==
    LET task == tasks[t]
    IN /\ task.kind = "search" /\ task.pc = "hits"
       /\ IF task.attempt < Retries
          THEN /\ Len(searches) < MaxSearches + Retries
               /\ \E corpus \in get_latest(corpuses) :
                      searches' = Append(searches,
                          Search_create(searches[task.search].search_str, corpus))
               /\ \E results \in Orders(task.hits) :
                      tasks' = [tasks EXCEPT ![t] =
                          [task EXCEPT !.search = Len(searches) + 1,
                                       !.todo = results,
                                       !.attempt = task.attempt + 1]]
          ELSE /\ tasks' = [tasks EXCEPT ![t] =
                      Fail(task, "OperationalError: database is locked")]
               /\ UNCHANGED searches
       /\ UNCHANGED <<auxvars, now, importTime, scans, docs, corpuses, index, megadocs,
                      files, bucket, loadvars>>

\* the hits are exhausted: SUCCESS, and the Search is returned
create_search_finish(t) ==
    LET task == tasks[t]
        s == task.search
    IN /\ task.kind = "search" /\ task.pc = "hits" /\ task.todo = <<>>
       /\ searches' = [searches EXCEPT ![s] = set_status(searches[s], "SUCCESS")]
       /\ tasks' = [tasks EXCEPT ![t] = Done(task, s)]
       /\ UNCHANGED <<auxvars, now, importTime, scans, docs, corpuses, index, megadocs,
                      files, bucket, loadvars>>

\* --------------------------------------------------------- Megadoc Builder
\* Base.update(data) on a Megadoc with the keys progress and status: every
\* key whose value differs is assigned
update(row, progress, status) ==
    onupdate(row, [row EXCEPT !.progress = progress, !.status = status])

\* Search.add_megadoc(filetype) on a Search object whose megadocs collection
\* holds the rows `loaded`: None when one of them has this filetype, else
\* the new row (PENDING, progress 0, no file yet)
add_megadoc(loaded, filetype) ==
    IF filetype \in {megadocs[x].filetype : x \in loaded}
    THEN 0
    ELSE Len(megadocs) + 1

Megadoc_new(s, filetype) ==
    [search |-> s, filetype |-> filetype, status |-> "PENDING",
     progress |-> Frac(0, 1), created_at |-> importTime,
     updated_at |-> importTime]

\* the look-up without the comparison of the filetype
old_megadoc_any(s, filetype) ==
    IF SearchMegadocs(s) = {} THEN 0 ELSE Min(SearchMegadocs(s))

\* the Megadoc create_megadoc finds for (search, filetype): the first one
\* of search.megadocs with this filetype, or None
old_megadoc(s, filetype) ==
    LET same == {m \in SearchMegadocs(s) : megadocs[m].filetype = filetype}
    IN IF same = {} THEN 0 ELSE Min(same)

\* create_megadoc that builds an existing Megadoc again instead of returning it
create_megadoc_start_rebuild(t, ft, s) ==
    LET filetype == Lower(ft)
        call == [Idle EXCEPT !.kind = "megadoc", !.search = s, !.filetype = filetype]
    IN /\ Slot(t)
       /\ s \in 1..Len(searches)
       /\ tasks' = [tasks EXCEPT ![t] =
              IF SearchDocumentCount(s) < 1 THEN Done(call, 0)
              ELSE IF old_megadoc(s, filetype) # 0
                   THEN [call EXCEPT !.pc = "write", !.megadoc = old_megadoc(s, filetype),
                                     !.todo = SortByCreatedAt(searches[s].documents)]
                   ELSE [call EXCEPT !.pc = "add"]]
       /\ UNCHANGED <<auxvars, now, importTime, dbvars, loadvars>>

\* create_megadoc without the check of search.document_count
create_megadoc_start_unchecked(t, ft, s) ==
    LET filetype == Lower(ft)
        call == [Idle EXCEPT !.kind = "megadoc", !.search = s, !.filetype = filetype]
    IN /\ Slot(t)
       /\ s \in 1..Len(searches)
       /\ tasks' = [tasks EXCEPT ![t] =
              IF old_megadoc(s, filetype) # 0
              THEN Done(call, old_megadoc(s, filetype))
              ELSE [call EXCEPT !.pc = "add"]]
       /\ UNCHANGED <<auxvars, now, importTime, dbvars, loadvars>>

\* create_megadoc up to the look-up of an existing Megadoc
create_megadoc_start(t, ft, s) ==
    LET filetype == Lower(ft)
        call == [Idle EXCEPT !.kind = "megadoc", !.search = s, !.filetype = filetype]
    IN /\ Slot(t)
       /\ s \in 1..Len(searches)
       /\ tasks' = [tasks EXCEPT ![t] =
              IF SearchDocumentCount(s) < 1 THEN Done(call, 0)
              ELSE IF old_megadoc(s, filetype) # 0
                   THEN Done(call, old_megadoc(s, filetype))
                   ELSE [call EXCEPT !.pc = "add"]]
       /\ UNCHANGED <<auxvars, now, importTime, dbvars, loadvars>>

\* create_megadoc writing the Documents in the order of search.documents,
\* without sorting them
create_megadoc_add_unsorted(t, own) ==
    LET task == tasks[t]
        s == task.search
        loaded == IF own
                  THEN {x \in SearchMegadocs(s) : megadocs[x].filetype # task.filetype}
                  ELSE SearchMegadocs(s)
        m == add_megadoc(loaded, task.filetype)
    IN /\ task.kind = "megadoc" /\ task.pc = "add"
       /\ m # 0 => Len(megadocs) < MaxMegadocs
       /\ IF m = 0
          THEN UNCHANGED <<megadocs, files>>
          ELSE /\ megadocs' = Append(megadocs, Megadoc_new(s, task.filetype))
               /\ files' = Append(files, <<>>)
       /\ tasks' = [tasks EXCEPT ![t] =
              [task EXCEPT !.pc = "write", !.megadoc = m, !.i = 0,
                           !.todo = searches[s].documents]]
       /\ UNCHANGED <<auxvars, now, importTime, scans, docs, corpuses, index, searches,
                      bucket, loadvars>>

\* search.add_megadoc, and the list of Documents to write.  The collection
\* search.megadocs was loaded when create_megadoc looked for an existing
\* Megadoc and is not loaded again (expire_on_commit is off): a call that
\* works on its own Search object (own) does not see what another call has
\* added since, a call that shares the object with the other call does.
create_megadoc_add(t, own) ==
    LET task == tasks[t]
        s == task.search
        loaded == IF own
                  THEN {x \in SearchMegadocs(s) : megadocs[x].filetype # task.filetype}
                  ELSE SearchMegadocs(s)
        m == add_megadoc(loaded, task.filetype)
    IN /\ task.kind = "megadoc" /\ task.pc = "add"
       /\ m # 0 => Len(megadocs) < MaxMegadocs
       /\ IF m = 0
          THEN UNCHANGED <<megadocs, files>>
          ELSE /\ megadocs' = Append(megadocs, Megadoc_new(s, task.filetype))
               /\ files' = Append(files, <<>>)
       /\ tasks' = [tasks EXCEPT ![t] =
              [task EXCEPT !.pc = "write", !.megadoc = m, !.i = 0,
                           !.todo = SortByCreatedAt(searches[s].documents)]]
       /\ UNCHANGED <<auxvars, now, importTime, scans, docs, corpuses, index, searches,
                      bucket, loadvars>>

\* one section appended to the file (_to_docx_file / _to_markdown_file)
create_megadoc_write(t) ==
    LET task == tasks[t]
        m == task.megadoc
        is_last_page == ~(task.i + 1 < SearchDocumentCount(task.search))
    IN /\ task.kind = "megadoc" /\ task.pc = "write"
       /\ IF task.filetype \notin {".docx", ".md", ".txt"}
          THEN /\ tasks' = [tasks EXCEPT ![t] = Fail(task, "NotImplementedError")]
               /\ UNCHANGED files
          ELSE IF m = 0
          THEN /\ tasks' = [tasks EXCEPT ![t] = Fail(task, "AttributeError")]
               /\ UNCHANGED files
          ELSE /\ files' = [files EXCEPT ![m] =
                     Append(files[m], [doc |-> Head(task.todo), last |-> is_last_page])]
               /\ tasks' = [tasks EXCEPT ![t].pc = "update"]
       /\ UNCHANGED <<auxvars, now, importTime, scans, docs, corpuses, index, searches,
                      megadocs, bucket, loadvars>>

\* megadoc.update after a section with the share of the Documents still to
\* write as the progress
create_megadoc_update_remaining(t) ==
    LET task == tasks[t]
        m == task.megadoc
    IN /\ task.kind = "megadoc" /\ task.pc = "update"
       /\ megadocs' = [megadocs EXCEPT ![m] =
              update(megadocs[m],
                     Frac(SearchDocumentCount(task.search) - task.i,
                          SearchDocumentCount(task.search)),
                     "STARTED")]
       /\ tasks' = [tasks EXCEPT ![t] =
              [task EXCEPT !.i = task.i + 1, !.todo = Tail(task.todo),
                           !.pc = IF Tail(task.todo) = <<>> THEN "final" ELSE "write"]]
       /\ UNCHANGED <<auxvars, now, importTime, scans, docs, corpuses, index, searches,
                      files, bucket, loadvars>>

\* megadoc.update after a section: progress and STARTED
create_megadoc_update(t) ==
    LET task == tasks[t]
        m == task.megadoc
    IN /\ task.kind = "megadoc" /\ task.pc = "update"
       /\ megadocs' = [megadocs EXCEPT ![m] =
              update(megadocs[m], Frac(task.i + 1, SearchDocumentCount(task.search)),
                     "STARTED")]
       /\ tasks' = [tasks EXCEPT ![t] =
              [task EXCEPT !.i = task.i + 1, !.todo = Tail(task.todo),
                           !.pc = IF Tail(task.todo) = <<>> THEN "final" ELSE "write"]]
       /\ UNCHANGED <<auxvars, now, importTime, scans, docs, corpuses, index, searches,
                      files, bucket, loadvars>>

\* after the loop: progress 100.0 and SENDING, and the Megadoc is returned
create_megadoc_finish(t) ==
    LET task == tasks[t]
        m == task.megadoc
    IN /\ task.kind = "megadoc" /\ task.pc = "final"
       /\ megadocs' = [megadocs EXCEPT ![m] =
              update(megadocs[m], Frac(100, 1), "SENDING")]
       /\ tasks' = [tasks EXCEPT ![t] = Done(task, m)]
       /\ UNCHANGED <<auxvars, now, importTime, scans, docs, corpuses, index, searches,
                      files, bucket, loadvars>>

\* ---------------------------------------------------------------- Uploader
\* upload_megadoc up to the loop: the file must exist
upload_megadoc_start(t, m) ==
    LET call == [Idle EXCEPT !.kind = "upload", !.megadoc = m]
    IN /\ Slot(t)
       /\ m \in 0..Len(megadocs)
       /\ tasks' = [tasks EXCEPT ![t] =
              IF m = 0 THEN Fail(call, "AttributeError")
              ELSE IF files[m] = <<>> THEN Fail(call, "FileNotFoundError")
              ELSE [call EXCEPT !.pc = "attempt", !.attempt = 1]]
       /\ UNCHANGED <<auxvars, now, importTime, dbvars, loadvars>>

\* the loop with `attempt < retries` in place of `attempt <= retries`: it
\* gives up one attempt early
after_attempt_short(task, ok) ==
    IF ok
    THEN IF task.attempt < Retries + 1
         THEN [task EXCEPT !.attempt = task.attempt + 1, !.sent = task.sent + 1]
         ELSE [task EXCEPT !.pc = "finish", !.sent = task.sent + 1]
    ELSE IF task.attempt < Retries
         THEN [task EXCEPT !.attempt = task.attempt + 1, !.slept = task.slept + 1]
         ELSE Fail(task, "RuntimeError")

\* what follows an attempt of the loop `for attempt in range(1, retries + 2)`:
\* after an attempt that raised nothing the loop goes on with the next
\* value; after one that raised, it sleeps and goes on while attempt <=
\* retries, and raises RuntimeError otherwise
after_attempt(task, ok) ==
    IF ok
    THEN IF task.attempt < Retries + 1
         THEN [task EXCEPT !.attempt = task.attempt + 1, !.sent = task.sent + 1]
         ELSE [task EXCEPT !.pc = "finish", !.sent = task.sent + 1]
    ELSE IF task.attempt <= Retries
         THEN [task EXCEPT !.attempt = task.attempt + 1, !.slept = task.slept + 1]
         ELSE Fail(task, "RuntimeError")

\* one attempt: s3_client.upload_fileobj succeeds (ok) or raises a
\* transient client error
upload_megadoc_attempt(t, ok) ==
    LET task == tasks[t]
    IN /\ task.kind = "upload" /\ task.pc = "attempt"
       /\ bucket' = IF ok THEN bucket \cup {task.megadoc} ELSE bucket
       /\ tasks' = [tasks EXCEPT ![t] = after_attempt(task, ok)]
       /\ UNCHANGED <<auxvars, now, importTime, scans, docs, corpuses, index, searches,
                      megadocs, files, loadvars>>

\* after the loop: SUCCESS
upload_megadoc_finish(t) ==
    LET task == tasks[t]
        m == task.megadoc
    IN /\ task.kind = "upload" /\ task.pc = "finish"
       /\ megadocs' = [megadocs EXCEPT ![m] = set_status(megadocs[m], "SUCCESS")]
       /\ tasks' = [tasks EXCEPT ![t] = Done(task, 0)]
       /\ UNCHANGED <<auxvars, now, importTime, scans, docs, corpuses, index, searches,
                      files, bucket, loadvars>>

\* ------------------------------------------------------- retry wrappers (db)
\* TRANS_EXC, by the errors that SQLite and asyncio raise
TRANS_EXC ==
    {"OperationalError: database is locked",
     "OperationalError: unable to open database file",
     "TimeoutError"}

\* what one execution of the wrapped function does: it returns, or raises
\* one of TRANS_EXC, another SQLAlchemyError, or any other exception
Outcomes == {"ok"} \cup TRANS_EXC \cup {"IntegrityError", "ValueError"}

\* the wrappers of handle_sql_errors that catch e and go on: from the
\* innermost outwards, the first whose attempt is not beyond retries
Retrying(attempt) == {k \in 1..Len(attempt) : attempt[k] <= Retries}

Max(S) == CHOOSE x \in S : \A y \in S : y <= x

\* a call of a function behind `depth` wrappers of handle_sql_errors
\* (with_async_session is handle_sql_errors around the session handling)
retry_call(depth) ==
    /\ retry.pc \in {"idle", "returned", "raised"}
    /\ retry' = [NoCall EXCEPT !.pc = "attempt", !.depth = depth,
                               !.attempt = [k \in 1..depth |-> 1]]
    /\ UNCHANGED <<pipe, textvars, imp, savevars, now, importTime, dbvars, tasks,
                   loadvars>>

\* one execution of the innermost function and what the wrappers make of
\* it: a result is returned; an exception outside TRANS_EXC, or the one
\* with "unable to open database file", is raised again by every wrapper;
\* any other of TRANS_EXC is caught by the innermost wrapper, which sleeps
\* and calls again while attempt <= retries and else raises it to the
\* wrapper around it, which does the same
retry_attempt(outcome) ==
    LET k == Max(Retrying(retry.attempt))
        ran == [retry EXCEPT !.body = retry.body + 1, !.last = outcome]
    IN /\ retry.pc = "attempt"
       /\ retry' =
             IF outcome = "ok" THEN [ran EXCEPT !.pc = "returned"]
             ELSE IF \/ outcome \notin TRANS_EXC
                     \/ outcome = "OperationalError: unable to open database file"
                     \/ Retrying(retry.attempt) = {}
                  THEN [ran EXCEPT !.pc = "raised", !.err = outcome]
                  ELSE [ran EXCEPT !.sleeps = retry.sleeps + 1,
                                   !.attempt = [j \in 1..retry.depth |->
                                                   IF j < k THEN retry.attempt[j]
                                                   ELSE IF j = k THEN retry.attempt[j] + 1
                                                   ELSE 1]]
       /\ UNCHANGED <<pipe, textvars, imp, savevars, now, importTime, dbvars, tasks,
                      loadvars>>

\* ------------------------------------------------- sessions and save (db)
\* Each task works on a session of its own; a change is named by the task
\* and the number of the call that made it.  pending is what the session
\* holds uncommitted, durable what has been committed to the database.
ModelOps == {"create", "update", "set_status", "delete"}

\* the acquisition of db_lock by `async with db_lock`, without the wait
db_lock_taken_anyway(t) ==
    /\ sessions[t].pc \in {"lock", "rollback_lock"}
    /\ db_lock' = t
    /\ sessions' = [sessions EXCEPT ![t].pc =
                       IF sessions[t].pc = "lock" THEN "commit" ELSE "rollback"]
    /\ UNCHANGED <<startup, durable, pipe, textvars, imp, retry, now, importTime, dbvars,
                   tasks, loadvars>>

\* Base.create, Base.update, Base.set_status and Base.delete up to their
\* first await on db_lock: create, set_status and an update with a new
\* value call save, which adds the object to the session and goes on to the
\* commit only if immediate; delete marks the object deleted and goes on to
\* the flush if immediate.  Adding or deleting begins the transaction of the
\* session (tx) if none is in progress.
model_call(t, op, immediate, is_update) ==
    LET s == sessions[t]
        change == <<t, s.n + 1>>
        called == [s EXCEPT !.op = op, !.immediate = immediate, !.n = s.n + 1,
                            !.attempt = 1, !.err = ""]
    IN /\ s.pc \in {"idle", "returned", "raised"}
       /\ s.n < MaxCalls
       /\ sessions' = [sessions EXCEPT ![t] =
             IF op = "update" /\ ~is_update
             THEN [called EXCEPT !.pc = "returned", !.change = <<>>]
             ELSE IF ~immediate
             THEN [called EXCEPT !.pc = "returned", !.change = change, !.tx = TRUE,
                                 !.pending = s.pending \cup {change}]
             ELSE [called EXCEPT !.pc = IF op = "delete" THEN "flush" ELSE "lock",
                                 !.change = change, !.tx = TRUE,
                                 !.pending = s.pending \cup {change}]]
       /\ UNCHANGED <<startup, db_lock, durable, pipe, textvars, imp, retry, now, importTime,
                      dbvars, tasks, loadvars>>

\* `async with db_lock:` in save, before the commit and before the rollback
db_lock_acquire(t) ==
    /\ db_lock = 0
    /\ db_lock_taken_anyway(t)

\* session.commit() under db_lock and the release of the lock as the block
\* is left.  A commit that raises one of TRANS_EXC goes to the rollback if
\* the session is in a transaction and is raised again by save; any other
\* error leaves save at once.
save_commit(t, outcome, in_transaction) ==
    LET s == sessions[t]
    IN /\ s.pc = "commit"
       /\ db_lock' = 0
       /\ IF outcome = "ok"
          THEN /\ durable' = durable \cup s.pending
               /\ sessions' = [sessions EXCEPT ![t].pc = "returned",
                                               ![t].pending = {},
                                               ![t].tx = FALSE]
          ELSE /\ durable' = durable
               /\ sessions' = [sessions EXCEPT
                     ![t].err = outcome,
                     ![t].tx = in_transaction,
                     ![t].pc = IF outcome \in TRANS_EXC /\ in_transaction
                               THEN "rollback_lock"
                               ELSE IF outcome \in TRANS_EXC THEN "retry"
                               ELSE "raised"]
       /\ UNCHANGED <<startup, pipe, textvars, imp, retry, now, importTime, dbvars, tasks,
                      loadvars>>

\* session.rollback() under db_lock; the lock is released as the block is
\* left, whether the rollback returns or raises
save_rollback(t, raises) ==
    LET s == sessions[t]
    IN /\ s.pc = "rollback"
       /\ db_lock' = 0
       /\ sessions' = [sessions EXCEPT
             ![t].pending = IF raises THEN s.pending ELSE {},
             ![t].tx = IF raises THEN s.tx ELSE FALSE,
             ![t].pc = IF raises THEN "raised" ELSE "retry"]
       /\ UNCHANGED <<startup, durable, pipe, textvars, imp, retry, now, importTime, dbvars,
                      tasks, loadvars>>

\* handle_sql_errors around save: the error that save raised again is
\* raised to the caller at once or after the last attempt, and otherwise
\* save runs again after the sleep and adds the object anew
save_retry(t) ==
    LET s == sessions[t]
    IN /\ s.pc = "retry"
       /\ sessions' = [sessions EXCEPT ![t] =
             IF \/ s.err = "OperationalError: unable to open database file"
                \/ s.attempt > Retries
             THEN [s EXCEPT !.pc = "raised"]
             ELSE [s EXCEPT !.pc = "lock", !.attempt = s.attempt + 1, !.err = "",
                            !.tx = TRUE, !.pending = s.pending \cup {s.change}]]
       /\ UNCHANGED <<startup, db_lock, durable, pipe, textvars, imp, retry, now, importTime,
                      dbvars, tasks, loadvars>>

\* session.flush() in Base.delete and handle_sql_errors around it (the
\* wrapper of with_async_session): a flush that raises one of TRANS_EXC is
\* raised to the caller at once or after the last attempt, and otherwise
\* delete runs again on the same session after the sleep; nothing commits
\* and nothing rolls back
delete_flush(t, outcome) ==
    LET s == sessions[t]
    IN /\ s.pc = "flush"
       /\ sessions' = [sessions EXCEPT ![t] =
             IF outcome = "ok"
             THEN [s EXCEPT !.pc = "returned"]
             ELSE IF /\ outcome \in TRANS_EXC
                     /\ outcome # "OperationalError: unable to open database file"
                     /\ s.attempt <= Retries
             THEN [s EXCEPT !.attempt = s.attempt + 1]
             ELSE [s EXCEPT !.pc = "raised", !.err = outcome]]
       /\ UNCHANGED <<startup, db_lock, durable, pipe, textvars, imp, retry, now, importTime,
                      dbvars, tasks, loadvars>>

\* the owner of the session closes it: what was not committed is gone
session_close(t) ==
    /\ sessions[t].pc \in {"returned", "raised"}
    /\ sessions' = [sessions EXCEPT ![t] = [NoSession EXCEPT !.n = sessions[t].n]]
    /\ UNCHANGED <<startup, db_lock, durable, pipe, textvars, imp, retry, now, importTime,
                   dbvars, tasks, loadvars>>

\* ------------------------------------------------- engine and schema (db)
\* the holder of db_lock when init_database holds it
Starter == MaxTasks + 1

\* init_database(uri, path) or init_async_engine(uri) is called: the first
\* waits for db_lock at once, the second after its globals are declared
startup_call(call) ==
    /\ startup.pc \in {"idle", "returned"}
    /\ startup' = [startup EXCEPT !.call = call,
                      !.pc = IF call = "init_database" THEN "lock" ELSE "engine_lock"]
    /\ UNCHANGED <<db_lock, sessions, durable, pipe, textvars, imp, retry, now,
                   importTime, dbvars, tasks, loadvars>>

\* the body of init_async_engine, from `async with db_lock` to its end: the
\* lock is waited for, and with the lock held the engine and the session
\* factory are made unless they exist; nothing is awaited inside, and the
\* lock is released as the block is left
init_async_engine ==
    /\ startup.pc = "engine_lock"
    /\ db_lock = 0
    /\ startup' = [startup EXCEPT !.engine = TRUE,
                      !.pc = IF startup.call = "init_database" THEN "schema"
                             ELSE "returned"]
    /\ UNCHANGED <<db_lock, sessions, durable, pipe, textvars, imp, retry, now,
                   importTime, dbvars, tasks, loadvars>>

\* init_database: `async with db_lock` is waited for; with the lock held the
\* directory is made, the old file unlinked and init_async_engine awaited;
\* when that has returned the schema is created, and the lock is released as
\* the block is left
init_database ==
    /\ startup.call = "init_database"
    /\ startup.pc \in {"lock", "schema"}
    /\ IF startup.pc = "lock"
       THEN /\ db_lock = 0
            /\ db_lock' = Starter
            /\ startup' = [startup EXCEPT !.pc = "engine_lock"]
       ELSE /\ db_lock' = 0
            /\ startup' = [startup EXCEPT !.schema = TRUE, !.pc = "returned"]
    /\ UNCHANGED <<sessions, durable, pipe, textvars, imp, retry, now, importTime,
                   dbvars, tasks, loadvars>>

\* ------------------------------------------------ search_to_megadocs (app)
\* config.megadoc_types, as the orders in which two file types can be listed
MegadocTypes == {<<".txt", ".pdf">>, <<".pdf", ".txt">>}

\* the exceptions that the try block around create_search catches
CaughtBySearch == {"ValueError", "RuntimeError", "TypeError"}

\* the exceptions that the try block around create_megadoc and
\* upload_megadoc catches (NotImplementedError is a RuntimeError)
CaughtByLoop == {"RuntimeError", "NotImplementedError"}

\* how search_to_megadocs ends when a call it awaits has raised err: a
\* caught exception is logged and the function returns, any other leaves
\* the function
ended(err, caught) ==
    [NoPipe EXCEPT !.pc = IF err \in caught THEN "returned" ELSE "raised",
                   !.err = err]

\* search_to_megadocs(search_str): it calls create_search
pipe_start(search_str, hits, types) ==
    /\ pipe.pc \in {"idle", "returned", "raised"}
    /\ create_search_start(1, search_str, hits)
    /\ pipe' = [NoPipe EXCEPT !.pc = "search", !.types = types]

\* the call that search_to_megadocs awaits goes on
pipe_step ==
    /\ pipe.pc \in {"search", "build", "upload"}
    /\ \/ create_search_hit(1)
       \/ create_search_finish(1)
       \/ \E own \in BOOLEAN : create_megadoc_add(1, own)
       \/ create_megadoc_write(1)
       \/ create_megadoc_update(1)
       \/ create_megadoc_finish(1)
       \/ \E ok \in BOOLEAN : upload_megadoc_attempt(1, ok)
       \/ upload_megadoc_finish(1)
    /\ UNCHANGED pipe

\* the except clause without its return: the failure of create_search is
\* logged and the loop over the file types is entered
pipe_search_failed_goes_on ==
    /\ pipe.pc = "search" /\ tasks[1].pc = "failed"
    /\ pipe' = IF searches = <<>> THEN ended(tasks[1].err, CaughtBySearch)
               ELSE [pipe EXCEPT !.pc = "loop", !.search = Len(searches)]
    /\ UNCHANGED <<auxvars, now, importTime, dbvars, tasks, loadvars>>

\* create_search has raised, and the function ends without a Megadoc
pipe_search_failed ==
    /\ pipe.pc = "search" /\ tasks[1].pc = "failed"
    /\ pipe' = ended(tasks[1].err, CaughtBySearch)
    /\ UNCHANGED <<auxvars, now, importTime, dbvars, tasks, loadvars>>

\* create_search has returned the Search
pipe_search_done ==
    /\ pipe.pc = "search" /\ tasks[1].pc = "done"
    /\ pipe' = [pipe EXCEPT !.pc = "loop", !.search = tasks[1].ret]
    /\ UNCHANGED <<auxvars, now, importTime, dbvars, tasks, loadvars>>

\* the head of `for filetype in megadoc_types`: create_megadoc for the next
\* file type, or the end of the function
pipe_build ==
    /\ pipe.pc = "loop"
    /\ IF pipe.types = <<>>
       THEN /\ pipe' = [NoPipe EXCEPT !.pc = "returned"]
            /\ UNCHANGED <<auxvars, now, importTime, dbvars, tasks, loadvars>>
       ELSE /\ create_megadoc_start(1, Head(pipe.types), pipe.search)
            /\ pipe' = [pipe EXCEPT !.pc = "build", !.types = Tail(pipe.types)]

\* create_megadoc has ended: what it returned is handed to upload_megadoc
pipe_upload ==
    /\ pipe.pc = "build" /\ Free(1)
    /\ IF tasks[1].pc = "failed"
       THEN /\ pipe' = ended(tasks[1].err, CaughtByLoop)
            /\ UNCHANGED <<auxvars, now, importTime, dbvars, tasks, loadvars>>
       ELSE /\ upload_megadoc_start(1, tasks[1].ret)
            /\ pipe' = [pipe EXCEPT !.pc = "upload"]

\* upload_megadoc has ended: on to the next file type
pipe_uploaded ==
    /\ pipe.pc = "upload" /\ Free(1)
    /\ pipe' = IF tasks[1].pc = "failed"
               THEN ended(tasks[1].err, CaughtByLoop)
               ELSE [pipe EXCEPT !.pc = "loop"]
    /\ UNCHANGED <<auxvars, now, importTime, dbvars, tasks, loadvars>>

\* ------------------------------------------------- calls on a Search (app)
\* search.set_status(status) as a call of its own: it returns, or raises
\* ValueError
Search_set_status(t, s, status) ==
    LET call == [Idle EXCEPT !.kind = "set_status", !.search = s]
    IN /\ Slot(t)
       /\ s \in 1..Len(searches)
       /\ searches' = [searches EXCEPT ![s] = set_status(searches[s], status)]
       /\ tasks' = [tasks EXCEPT ![t] =
              IF Upper(status) \in status_set THEN Done(call, 0)
              ELSE Fail(call, "ValueError")]
       /\ UNCHANGED <<pipe, auxvars, now, importTime, scans, docs, corpuses, index,
                      megadocs, files, bucket, loadvars>>

\* delete_search(search_guid): False (0) when Search.get finds nothing; else
\* search.delete(session=session) is called without await, which makes the
\* coroutine and never runs it, and True (1) is returned
delete_search(t, search_guid) ==
    LET call == [Idle EXCEPT !.kind = "delete_search", !.search = search_guid]
    IN /\ Slot(t)
       /\ tasks' = [tasks EXCEPT ![t] =
              Done(call, IF Search_get(search_guid) = 0 THEN 0 ELSE 1)]
       /\ UNCHANGED <<pipe, auxvars, now, importTime, dbvars, loadvars>>

\* ------------------------------------------- load orchestrator (orca_api)
\* an ingest/index run is in progress: dispatched, index_documents not yet
\* finished
LoadInProgress == \E l \in 1..MaxLoads : loads[l].phase \in {"ingest", "index"}

\* start_load_documents(path): a flag that is already set is only logged;
\* a bad path raises IOError before the flag is set; else the flag is set
\* and the chord is dispatched
start_load_documents(l, path, albums) ==
    /\ loads[l].phase = "idle"
    /\ \A k \in 1..MaxLoads : loads[k].phase = "idle" => l <= k
    /\ IF path = "ok"
       THEN /\ loading' = TRUE
            /\ loads' = [loads EXCEPT ![l] = [phase |-> "ingest", albums |-> albums]]
       ELSE /\ albums = 1
            /\ UNCHANGED <<loading, loads>>
    /\ UNCHANGED <<pipe, auxvars, now, importTime, dbvars, tasks, httpStatus, httpSeq, enqueued>>

\* one load_documents task of the chord ends: it has stored the n Documents
\* of its album; after the last one the chord goes on to index_documents
load_documents(l, n) ==
    /\ loads[l].phase = "ingest"
    /\ Len(docs) + n <= MaxDocs
    /\ scans' = scans \o [k \in 1..n |->
                    [stem |-> CHOOSE st \in Stems : TRUE, created_at |-> importTime,
                     deleted |-> FALSE]]
    /\ docs' = docs \o [k \in 1..n |->
                    [scan |-> Len(scans) + k, stem |-> CHOOSE st \in Stems : TRUE,
                     created_at |-> importTime, deleted |-> FALSE]]
    /\ loads' = [loads EXCEPT ![l] =
           IF loads[l].albums = 1 THEN [phase |-> "index", albums |-> 0]
           ELSE [phase |-> "ingest", albums |-> loads[l].albums - 1]]
    /\ UNCHANGED <<pipe, auxvars, now, importTime, corpuses, index, searches, megadocs, files,
                   bucket, tasks, loading, httpStatus, httpSeq, enqueued>>

\* a load_documents task raises: the chord never reaches index_documents
\* nor reset_lock
load_documents_raises(l) ==
    /\ loads[l].phase = "ingest"
    /\ loads' = [loads EXCEPT ![l] = [phase |-> "failed", albums |-> 0]]
    /\ UNCHANGED <<pipe, auxvars, now, importTime, dbvars, tasks, loading, httpStatus, httpSeq,
                   enqueued>>

\* index_documents: the Corpus snapshot and the rebuilt index
index_documents(l) ==
    /\ loads[l].phase = "index"
    /\ Len(corpuses) < MaxCorpuses
    /\ corpuses' = Append(corpuses, Corpus_create)
    /\ index' = Range(Document_get_all)
    /\ loads' = [loads EXCEPT ![l] = [phase |-> "reset", albums |-> 0]]
    /\ UNCHANGED <<pipe, auxvars, now, importTime, scans, docs, searches, megadocs, files,
                   bucket, tasks, loading, httpStatus, httpSeq, enqueued>>

\* reset_lock, chained after index_documents
reset_lock(l) ==
    /\ loads[l].phase = "reset"
    /\ loading' = FALSE
    /\ loads' = [loads EXCEPT ![l] = NoLoad]
    /\ UNCHANGED <<pipe, auxvars, now, importTime, dbvars, tasks, httpStatus, httpSeq, enqueued>>

\* ------------------------------------------------------ HTTP (orca.server)
\* POST /search: 503 while the flag is set; 400 without a search_str; the
\* abort(400) for a blank search_str is raised inside the try block, whose
\* `except Exception` turns it into 500; else start_search and 202
http_create_search(body) ==
    LET status == IF loading THEN 503
                  ELSE IF body = "missing" THEN 400
                  ELSE IF body = "blank" THEN 500
                  ELSE 202
    IN /\ status = 202 => enqueued < MaxQueue
       /\ httpStatus' = status
       /\ httpSeq' = 1 - httpSeq
       /\ enqueued' = IF status = 202 THEN enqueued + 1 ELSE enqueued
       /\ UNCHANGED <<pipe, auxvars, now, importTime, dbvars, tasks, loading, loads>>

\* GET /search/<search_id>: 503 while the flag is set; abort(404) for a
\* Search that is not found is raised inside the try block, whose `except
\* Exception` turns it into 500; else the Search as JSON, 200
http_get_search(search_id) ==
    LET status == IF loading THEN 503
                  ELSE IF Search_get(search_id) = 0 THEN 500
                  ELSE 200
    IN /\ httpStatus' = status
       /\ httpSeq' = 1 - httpSeq
       /\ UNCHANGED <<pipe, auxvars, now, importTime, dbvars, tasks, loading, loads,
                      enqueued>>

\* DELETE /search/<search_id>: as GET, and a Search that is found is deleted,
\* 204
http_delete_search(search_id) ==
    LET status == IF loading THEN 503
                  ELSE IF Search_get(search_id) = 0 THEN 500
                  ELSE 204
    IN /\ httpStatus' = status
       /\ httpSeq' = 1 - httpSeq
       /\ searches' = IF status = 204
                      THEN [searches EXCEPT ![search_id].deleted = TRUE]
                      ELSE searches
       /\ UNCHANGED <<pipe, auxvars, now, importTime, scans, docs, corpuses, index,
                      megadocs, files, bucket, tasks, loading, loads, enqueued>>

\* ---------------------------------------------------------- specifications
Ingest == \E stem \in Stems : create_from_file(stem, 0)

Delete ==
    \/ \E d \in 1..MaxDocs : Document_delete(d)
    \/ \E sc \in 1..MaxDocs : Scan_delete(sc)

Searcher ==
    \E t \in 1..MaxTasks :
        \/ \E str \in SearchStrs, hits \in SUBSET (1..MaxDocs) :
               create_search_start(t, str, hits) /\ UNCHANGED pipe
        \/ create_search_hit(t) /\ UNCHANGED pipe
        \/ create_search_finish(t) /\ UNCHANGED pipe

Builder ==
    \E t \in 1..MaxTasks :
        \/ \E ft \in InputTypes, s \in 1..MaxSearches : create_megadoc_start(t, ft, s) /\ UNCHANGED pipe
        \/ (\E own \in BOOLEAN : create_megadoc_add(t, own)) /\ UNCHANGED pipe
        \/ create_megadoc_write(t) /\ UNCHANGED pipe
        \/ create_megadoc_update(t) /\ UNCHANGED pipe
        \/ create_megadoc_finish(t) /\ UNCHANGED pipe

Uploader ==
    \E t \in 1..MaxTasks :
        \/ \E m \in 0..MaxMegadocs : upload_megadoc_start(t, m) /\ UNCHANGED pipe
        \/ \E ok \in BOOLEAN : upload_megadoc_attempt(t, ok) /\ UNCHANGED pipe
        \/ upload_megadoc_finish(t) /\ UNCHANGED pipe

\* calls never overlap: at most one call is in flight
OneAtATime == \A t, u \in 1..MaxTasks : Running(t) /\ Running(u) => t = u

\* the search pipeline, its tasks interleaved at their suspension points
Next == Ingest \/ create_index \/ Searcher \/ Builder \/ Uploader

Spec == Init /\ [][Next]_vars

\* the same, with the calls made one after the other
SeqNext ==
    \/ Ingest /\ OneAtATime'
    \/ create_index /\ OneAtATime'
    \/ Searcher /\ OneAtATime'
    \/ Builder /\ OneAtATime'
    \/ Uploader /\ OneAtATime'

SeqSpec == Init /\ [][SeqNext]_vars

\* the archive over several runs of the program, with deletions
ArchiveNext ==
    \/ Tick
    \/ Restart
    \/ Ingest
    \/ Delete
    \/ create_index
    \/ Searcher /\ OneAtATime'

ArchiveSpec == Init /\ [][ArchiveNext]_vars

\* the load orchestrator and the HTTP handlers
LoadNext ==
    \/ \E l \in 1..MaxLoads, path \in {"ok", "notdir", "noalbums"}, n \in 1..MaxAlbums :
           start_load_documents(l, path, n)
    \/ \E l \in 1..MaxLoads, n \in 0..1 : load_documents(l, n)
    \/ \E l \in 1..MaxLoads : load_documents_raises(l)
    \/ \E l \in 1..MaxLoads : index_documents(l)
    \/ \E l \in 1..MaxLoads : reset_lock(l)
    \/ \E body \in {"missing", "blank", "ok"} : http_create_search(body)

LoadSpec == Init /\ [][LoadNext]_vars

\* a run is dispatched only while the corpuses table has room for the
\* snapshot of every run that is in progress
RoomToIndex ==
    Len(corpuses) + Cardinality({l \in 1..MaxLoads :
                                    loads[l].phase \in {"ingest", "index"}})
       < MaxCorpuses

\* a load_documents task of the chord runs to its end, one way or the other
load_documents_ends(l) ==
    \/ \E n \in 0..1 : load_documents(l, n)
    \/ load_documents_raises(l)

LoadLiveNext ==
    \/ /\ RoomToIndex
       /\ \E l \in 1..MaxLoads, path \in {"ok", "notdir", "noalbums"},
             n \in 1..MaxAlbums : start_load_documents(l, path, n)
    \/ \E l \in 1..MaxLoads : load_documents_ends(l)
    \/ \E l \in 1..MaxLoads : index_documents(l)
    \/ \E l \in 1..MaxLoads : reset_lock(l)
    \/ \E body \in {"missing", "blank", "ok"} : http_create_search(body)

\* the workers run every task that was dispatched and every task whose
\* turn in the chord has come
LoadLive ==
    /\ Init /\ [][LoadLiveNext]_vars
    /\ \A l \in 1..MaxLoads :
          /\ WF_vars(load_documents_ends(l))
          /\ WF_vars(index_documents(l))
          /\ WF_vars(reset_lock(l))

\* search_to_megadocs over an archive that is ingested, indexed and pruned
PipeNext ==
    \/ Ingest
    \/ Delete
    \/ create_index
    \/ \E str \in SearchStrs, hits \in SUBSET (1..MaxDocs), types \in MegadocTypes :
           pipe_start(str, hits, types)
    \/ pipe_step
    \/ pipe_search_failed
    \/ pipe_search_done
    \/ pipe_build
    \/ pipe_upload
    \/ pipe_uploaded

PipeSpec == Init /\ [][PipeNext]_vars

\* the lists of distinct files of length 1 to 3
Batches ==
    {b \in UNION {[1..n -> FileNames] : n \in 1..3} :
         \A i, j \in 1..Len(b) : b[i] = b[j] => i = j}

\* runs of the Ingestor and the Indexer, one at a time, over files that come
\* and go
IngestNext ==
    \/ \E data \in Batches : import_documents_start(data)
    \/ import_documents_file
    \/ import_documents_end
    \/ \E d \in 1..MaxDocs : remove_text(d) /\ imp.pc # "run"
    \/ create_index /\ imp.pc # "run"

IngestSpec == Init /\ [][IngestNext]_vars

\* the lists of files whose names can be parsed
GoodBatches == {b \in Batches : Range(b) \subseteq GoodFiles}

\* runs of the Ingestor, the Indexer and searches, one at a time, with
\* database operations that fail for a while
RerunNext ==
    \/ \E data \in GoodBatches : import_documents_start(data)
    \/ import_documents_file
    \/ import_documents_transient
    \/ import_documents_end
    \/ create_index /\ imp.pc # "run"
    \/ Searcher /\ OneAtATime' /\ imp.pc # "run"
    \/ \E t \in 1..MaxTasks : create_search_transient(t) /\ UNCHANGED pipe

RerunSpec == Init /\ [][RerunNext]_vars

\* calls through the retry wrappers
RetryNext ==
    \/ \E depth \in 1..MaxDepth : retry_call(depth)
    \/ \E outcome \in Outcomes : retry_attempt(outcome)

RetrySpec == Init /\ [][RetryNext]_vars

\* tasks saving through their sessions
SaveNext ==
    \/ \E t \in 1..MaxTasks, op \in ModelOps, immediate \in BOOLEAN,
          is_update \in BOOLEAN : model_call(t, op, immediate, is_update)
    \/ \E t \in 1..MaxTasks : db_lock_acquire(t)
    \/ \E t \in 1..MaxTasks, outcome \in Outcomes, in_transaction \in BOOLEAN :
          save_commit(t, outcome, in_transaction)
    \/ \E t \in 1..MaxTasks, raises \in BOOLEAN : save_rollback(t, raises)
    \/ \E t \in 1..MaxTasks : save_retry(t)
    \/ \E t \in 1..MaxTasks, outcome \in Outcomes : delete_flush(t, outcome)
    \/ \E t \in 1..MaxTasks : session_close(t)

SaveSpec == Init /\ [][SaveNext]_vars

\* the initialization of the engine and of the database, next to one task
\* that saves once the session factory exists
StartNext ==
    \/ \E call \in {"init_database", "init_async_engine"} : startup_call(call)
    \/ init_async_engine
    \/ init_database
    \/ /\ startup.engine
       /\ \E op \in ModelOps, immediate \in BOOLEAN, is_update \in BOOLEAN :
             model_call(1, op, immediate, is_update)
    \/ db_lock_acquire(1)
    \/ \E outcome \in Outcomes, in_transaction \in BOOLEAN :
          save_commit(1, outcome, in_transaction)
    \/ \E raises \in BOOLEAN : save_rollback(1, raises)
    \/ save_retry(1)
    \/ \E outcome \in Outcomes : delete_flush(1, outcome)
    \/ session_close(1)

StartSpec == Init /\ [][StartNext]_vars

\* the event loop runs every coroutine that is ready: a coroutine waiting
\* for db_lock gets it once it is free, and a block that holds it is left
StartLive ==
    /\ StartSpec
    /\ WF_vars(init_async_engine)
    /\ WF_vars(init_database)
    /\ WF_vars(db_lock_acquire(1))
    /\ WF_vars(\E outcome \in Outcomes, in_transaction \in BOOLEAN :
                  save_commit(1, outcome, in_transaction))
    /\ WF_vars(\E raises \in BOOLEAN : save_rollback(1, raises))

\* Scans with several revisions (Documents), created and deleted over
\* several runs of the program
DocNext ==
    \/ Tick
    \/ Restart
    \/ \E stem \in Stems, scan \in 0..MaxDocs : create_from_file(stem, scan)
    \/ Delete
    \/ create_index

DocSpec == Init /\ [][DocNext]_vars

\* the HTTP handlers for one Search, over searches and load runs
HttpNext ==
    \/ Ingest
    \/ create_index
    \/ Searcher /\ OneAtATime'
    \/ \E l \in 1..MaxLoads : start_load_documents(l, "ok", 1)
    \/ \E l \in 1..MaxLoads : load_documents(l, 0)
    \/ \E l \in 1..MaxLoads : index_documents(l)
    \/ \E l \in 1..MaxLoads : reset_lock(l)
    \/ \E search_id \in 1..MaxSearches : http_get_search(search_id)
    \/ \E search_id \in 1..MaxSearches : http_delete_search(search_id)

HttpSpec == Init /\ [][HttpNext]_vars

\* search_to_megadocs over Documents ingested by several runs of the
\* program
BuildNext ==
    \/ Tick
    \/ Restart /\ pipe.pc \in {"idle", "returned", "raised"}
    \/ Ingest
    \/ create_index
    \/ \E str \in SearchStrs, hits \in SUBSET (1..MaxDocs), types \in MegadocTypes :
           pipe_start(str, hits, types)
    \/ pipe_step
    \/ pipe_search_failed
    \/ pipe_search_done
    \/ pipe_build
    \/ pipe_upload
    \/ pipe_uploaded

BuildSpec == Init /\ [][BuildNext]_vars

\* the calls made one after the other, by a program that can end in the
\* middle of a call and be started again
CrashNext ==
    \/ Tick
    \/ Restart
    \/ Ingest /\ OneAtATime'
    \/ create_index /\ OneAtATime'
    \/ Searcher /\ OneAtATime'
    \/ Builder /\ OneAtATime'
    \/ Uploader /\ OneAtATime'

CrashSpec == Init /\ [][CrashNext]_vars

\* searches, and the calls that set the status of a Search or delete it
ApiNext ==
    \/ Ingest
    \/ create_index
    \/ Searcher /\ OneAtATime'
    \/ \E t \in 1..MaxTasks, s \in 1..MaxSearches, status \in StatusInputs :
           Search_set_status(t, s, status)
    \/ \E t \in 1..MaxTasks, guid \in 0..MaxSearches + 1 : delete_search(t, guid)

ApiSpec == Init /\ [][ApiNext]_vars

\* ------------------------------------------------------------------ claims
\* C1: while an ingest/index run started by start_load_documents is in
\* progress, every POST /search is answered 503 and enqueues no search
C1_BusyWhileLoading ==
    [][(LoadInProgress /\ httpSeq' # httpSeq)
          => (httpStatus' = 503 /\ enqueued' = enqueued)]_vars

\* C2: over calls of create_search, create_megadoc and upload_megadoc made
\* one after the other, the status of a Search or Megadoc never moves
\* backwards in PENDING < STARTED < SENDING < SUCCESS, and once it is SUCCESS
\* neither the status nor the progress changes again
C2_StatusMonotone ==
    [][/\ \A s \in 1..Len(searches) :
             /\ Rank(searches'[s].status) >= Rank(searches[s].status)
             /\ searches[s].status = "SUCCESS" => searches'[s].status = "SUCCESS"
       /\ \A m \in 1..Len(megadocs) :
             /\ Rank(megadocs'[m].status) >= Rank(megadocs[m].status)
             /\ megadocs[m].status = "SUCCESS" =>
                    /\ megadocs'[m].status = "SUCCESS"
                    /\ megadocs'[m].progress = megadocs[m].progress]_vars

\* a create_megadoc call has returned a Megadoc that an earlier upload
\* had already brought to SUCCESS
C2_Witness ==
    \E t \in 1..MaxTasks, m \in 1..Len(megadocs) :
        /\ tasks[t].kind = "megadoc" /\ tasks[t].pc = "done" /\ tasks[t].ret = m
        /\ megadocs[m].status = "SUCCESS"
        /\ searches[megadocs[m].search].status = "SUCCESS"

\* C3: at most one Megadoc row exists for each (Search, filetype), also
\* when create_megadoc calls for the same Search and filetype overlap
C3_OneMegadocPerType ==
    \A m1, m2 \in 1..Len(megadocs) :
        (/\ megadocs[m1].search = megadocs[m2].search
         /\ Lower(megadocs[m1].filetype) = Lower(megadocs[m2].filetype)) => m1 = m2

\* C4: create_megadoc for a (Search, filetype) that already has a Megadoc
\* returns that Megadoc and leaves the megadocs table and the files as
\* they are
C4_ExistingReturned ==
    [][\A t \in 1..MaxTasks, ft \in InputTypes, s \in 1..Len(searches) :
          (/\ create_megadoc_start(t, ft, s)
           /\ \E m \in SearchMegadocs(s) : megadocs[m].filetype = Lower(ft))
          => /\ tasks'[t].pc = "done"
             /\ tasks'[t].ret \in SearchMegadocs(s)
             /\ megadocs[tasks'[t].ret].filetype = Lower(ft)
             /\ megadocs' = megadocs
             /\ files' = files]_vars

\* a create_megadoc call has returned a Megadoc while the Search has two
C4_Witness ==
    \E t \in 1..MaxTasks :
        /\ tasks[t].kind = "megadoc" /\ tasks[t].pc = "done" /\ tasks[t].ret # 0
        /\ Len(megadocs) = 2
        /\ megadocs[tasks[t].ret].status \in {"PENDING", "STARTED"}

\* C5: within one upload_megadoc call the file is sent successfully at
\* most once
C5_UploadAtMostOnce ==
    \A t \in 1..MaxTasks : tasks[t].kind = "upload" => tasks[t].sent <= 1

\* C6: the member Documents and the checksum of an existing Corpus never
\* change
C6_CorpusImmutable ==
    [][\A c \in 1..Len(corpuses) :
          /\ CorpusDocuments(c)' = CorpusDocuments(c)
          /\ corpuses'[c].checksum = corpuses[c].checksum]_vars

\* C7: document_count of every Corpus equals the number of Documents in
\* its documents relation
C7_DocumentCount ==
    \A c \in 1..Len(corpuses) :
        corpuses[c].document_count = Cardinality(CorpusDocuments(c))

\* C8: a new Search is bound to the Corpus created last, and the corpus of
\* an existing Search never changes
C8_LatestCorpus ==
    [][/\ Len(searches') > Len(searches) =>
              searches'[Len(searches')].corpus = Len(corpuses)
       /\ \A s \in 1..Len(searches) :
              searches'[s].corpus = searches[s].corpus]_vars

\* C9: every Document attached to a Search is a member of the Corpus the
\* Search is bound to
C9_ResultsInCorpus ==
    \A s \in 1..Len(searches) :
        Range(searches[s].documents) \subseteq Range(corpuses[searches[s].corpus].documents)

\* the state part of C10: a running create_search has not yet set SUCCESS,
\* a Search with a Document attached is no longer PENDING, and no
\* Document is attached twice
C10_Running ==
    /\ \A t \in 1..MaxTasks :
          (tasks[t].kind = "search" /\ tasks[t].pc = "hits") =>
              /\ searches[tasks[t].search].status # "SUCCESS"
              /\ Range(searches[tasks[t].search].documents) \cup Range(tasks[t].todo)
                     = tasks[t].hits
    /\ \A s \in 1..Len(searches) :
          /\ searches[s].documents # <<>> => searches[s].status # "PENDING"
          /\ Cardinality(Range(searches[s].documents)) = Len(searches[s].documents)

\* C10: create_search creates the Search PENDING and without Documents;
\* it is STARTED no later than its first attach, SUCCESS only after the
\* last hit; the call returns the Search with status SUCCESS and with
\* exactly the hits of the index attached, each once
C10_SearchLifecycle ==
    [][/\ C10_Running'
       /\ Len(searches') > Len(searches) =>
              /\ searches'[Len(searches')].status = "PENDING"
              /\ searches'[Len(searches')].documents = <<>>
       /\ \A t \in 1..MaxTasks :
              (tasks[t].kind = "search" /\ tasks[t].pc = "hits" /\ tasks'[t].pc = "done")
              => /\ tasks'[t].ret = tasks[t].search
                 /\ searches'[tasks[t].search].status = "SUCCESS"
                 /\ Range(searches'[tasks[t].search].documents) = tasks[t].hits
                 /\ Len(searches'[tasks[t].search].documents)
                        = Cardinality(tasks[t].hits)]_vars

\* a create_search call has returned a Search with two Documents attached
C10_Witness ==
    \E t \in 1..MaxTasks :
        /\ tasks[t].kind = "search" /\ tasks[t].pc = "done" /\ tasks[t].ret # 0
        /\ searches[tasks[t].ret].status = "SUCCESS"
        /\ Len(searches[tasks[t].ret].documents) = 2

\* C11: create_search with a search string shorter than 3 characters, or
\* with no Corpus in the database, ends with an input error (ValueError) and
\* leaves the database as it is; a string of length 3 with a Corpus present
\* is accepted and a Search row is created
C11_Preconditions ==
    [][\A t \in 1..MaxTasks, str \in SearchStrs, hits \in SUBSET (1..MaxDocs) :
          create_search_start(t, str, hits) =>
              IF Len(str) < 3 \/ corpuses = <<>>
              THEN /\ tasks'[t].pc = "failed"
                   /\ tasks'[t].err = "ValueError"
                   /\ dbvars' = dbvars
              ELSE /\ Len(searches') = Len(searches) + 1
                   /\ tasks'[t].pc = "hits"]_vars

\* a create_search call with a Corpus present has been rejected, and no
\* Search row exists
C11_Witness ==
    \E t \in 1..MaxTasks :
        /\ tasks[t].kind = "search" /\ tasks[t].pc = "failed"
        /\ tasks[t].err = "ValueError"
        /\ corpuses # <<>>
        /\ searches = <<>>

\* C12: when a hit of the index has no Document in the database,
\* create_search ends with LookupError (index out of sync) without touching
\* the Search, whose status stays PENDING or STARTED; search_to_megadocs then
\* ends, and no Megadoc is ever built or uploaded for a Search that is not
\* SUCCESS
C12_IndexOutOfSync ==
    [][/\ (/\ tasks[1].kind = "search" /\ tasks[1].pc = "hits"
           /\ tasks[1].todo # <<>>
           /\ Document_get(Head(tasks[1].todo)) = 0
           /\ tasks'[1] # tasks[1])
          => /\ tasks'[1].pc = "failed"
             /\ tasks'[1].err = "LookupError"
             /\ searches' = searches
             /\ searches[tasks[1].search].status \in {"PENDING", "STARTED"}
       /\ (tasks[1].pc = "failed" /\ tasks[1].err = "LookupError"
           /\ pipe.pc = "search" /\ pipe' # pipe)
          => pipe'.pc = "raised" /\ pipe'.err = "LookupError"
       /\ \A s \in 1..Len(searches') :
             searches'[s].status # "SUCCESS" =>
                 /\ \A m \in 1..Len(megadocs') : megadocs'[m].search # s
                 /\ ~(pipe'.pc \in {"loop", "build", "upload"} /\ pipe'.search = s)]_vars

\* search_to_megadocs has ended on the LookupError of create_search, with a
\* first hit already attached to the Search
C12_Witness ==
    /\ pipe.pc = "raised" /\ pipe.err = "LookupError"
    /\ searches # <<>>
    /\ searches[Len(searches)].status = "STARTED"
    /\ megadocs = <<>>

\* C13: create_megadoc on a Search without attached Documents returns
\* None at once, for every filetype, and neither the megadocs table nor any
\* file changes
C13_NoResultsNoMegadoc ==
    [][\A t \in 1..MaxTasks, ft \in InputTypes, s \in 1..Len(searches) :
          (create_megadoc_start(t, ft, s) /\ Len(searches[s].documents) = 0)
          => /\ tasks'[t].pc = "done"
             /\ tasks'[t].ret = 0
             /\ megadocs' = megadocs
             /\ files' = files
             /\ bucket' = bucket]_vars

\* a create_megadoc call has returned None for a Search without Documents
C13_Witness ==
    \E t \in 1..MaxTasks :
        /\ tasks[t].kind = "megadoc" /\ tasks[t].pc = "done" /\ tasks[t].ret = 0
        /\ searches # <<>>
        /\ \A s \in 1..Len(searches) :
              searches[s].documents = <<>> /\ searches[s].status = "SUCCESS"
        /\ megadocs = <<>>

C15_NoDuplicates ==
    /\ \A d1, d2 \in LiveDocs : docs[d1].stem = docs[d2].stem => d1 = d2
    /\ \A s1, s2 \in LiveScans : scans[s1].stem = scans[s2].stem => s1 = s2

\* C16: create_index stores an index entry for exactly the Documents whose
\* text file could be read
C16_UnreadableSkipped ==
    [][corpuses' # corpuses => index' = Range(Document_get_all) \ unreadable]_vars

\* C17: within one call under the retry policy the wrapped operation is
\* executed at most retries + 1 times
C17_AtMostRetriesPlusOne ==
    retry.body <= Retries + 1

\* C18: a transient error does not reach the caller while fewer than
\* retries retries have been made, and any other error reaches the caller
\* in the attempt that raised it, without a sleep
C18_Propagation ==
    [][retry'.body = retry.body + 1 =>
          /\ (retry'.last \in TRANS_EXC /\ retry.sleeps < Retries)
                 => retry'.pc # "raised"
          /\ (retry'.last \notin TRANS_EXC \cup {"ok"})
                 => /\ retry'.pc = "raised"
                    /\ retry'.err = retry'.last
                    /\ retry'.sleeps = retry.sleeps]_vars

C20_ImmediateCommits ==
    \A t \in 1..MaxTasks :
       (sessions[t].pc = "returned" /\ sessions[t].change # <<>>)
          => (sessions[t].immediate <=> sessions[t].change \in durable)

\* C21: set_status with a value that is not one of PENDING, STARTED,
\* SENDING, SUCCESS raises ValueError and changes no Search
C21_InvalidStatusRejected ==
    [][\A t \in 1..MaxTasks, s \in 1..MaxSearches, status \in StatusInputs \ status_set :
          Search_set_status(t, s, status)
             => /\ tasks'[t].pc = "failed"
                /\ tasks'[t].err = "ValueError"
                /\ searches' = searches]_vars

\* C27: delete_search with the guid of an existing Search reports success
\* and removes the Search, so that a following look-up finds nothing; with
\* an unknown guid it reports failure and changes nothing
C27_DeleteSearch ==
    [][\A t \in 1..MaxTasks, guid \in 0..MaxSearches + 1 :
          delete_search(t, guid)
             => IF Search_get(guid) # 0
                THEN tasks'[t].ret = 1 /\ searches'[guid].deleted
                ELSE tasks'[t].ret = 0 /\ dbvars' = dbvars]_vars

\* C22: while no attempt of upload_megadoc has succeeded, a failed attempt
\* is followed by a sleep and the next attempt up to attempt retries + 1,
\* whose failure raises RuntimeError; the attempts leave every Megadoc, and
\* so its status, as it was
C22_UploadExhausted ==
    [][\A t \in 1..MaxTasks :
          (tasks[t].kind = "upload" /\ tasks[t].pc = "attempt" /\ tasks'[t] # tasks[t])
             => /\ megadocs' = megadocs
                /\ (/\ tasks[t].sent = 0
                    /\ \/ tasks'[t].pc = "failed"
                       \/ tasks'[t].pc = "attempt" /\ tasks'[t].sent = 0)
                      => IF tasks[t].attempt <= Retries
                         THEN /\ tasks'[t].pc = "attempt"
                              /\ tasks'[t].attempt = tasks[t].attempt + 1
                              /\ tasks'[t].slept = tasks[t].slept + 1
                         ELSE /\ tasks'[t].pc = "failed"
                              /\ tasks'[t].err = "RuntimeError"
                              /\ tasks[t].attempt = Retries + 1
                              /\ tasks[t].slept = Retries]_vars

\* upload_megadoc has raised RuntimeError and the Megadoc it was given is
\* SENDING and has not reached the bucket
C22_Witness ==
    /\ \E t \in 1..MaxTasks :
          /\ tasks[t].kind = "upload" /\ tasks[t].pc = "failed"
          /\ tasks[t].err = "RuntimeError"
    /\ Len(megadocs) = 1
    /\ megadocs[1].status = "SENDING"
    /\ bucket = {}

\* C23: when create_megadoc has failed for one file type and more file
\* types are requested, search_to_megadocs goes on with the next file type
C23_OtherFiletypesBuilt ==
    [][(/\ pipe.pc = "build" /\ tasks[1].pc = "failed"
        /\ pipe.types # <<>>
        /\ pipe' # pipe)
          => /\ pipe'.pc = "loop"
             /\ pipe'.types = pipe.types]_vars

\* C24: every existing Document refers to an existing Scan; a Scan that is
\* deleted takes all its Documents with it, and the deletion of a Document
\* leaves the Scans as they are
C24_NoOrphans ==
    [][/\ \A d \in LiveDocs' : docs'[d].scan \in LiveScans'
       /\ \A sc \in LiveScans : sc \notin LiveScans' => get_all_for_scan(sc)' = {}
       /\ \A d \in 1..MaxDocs : Document_delete(d) => scans' = scans]_vars

\* a Scan with two Documents has been deleted
C24_Witness ==
    \E sc \in 1..Len(scans) :
       /\ scans[sc].deleted
       /\ Cardinality({d \in 1..Len(docs) : docs[d].scan = sc /\ docs[d].deleted}) = 2

\* C25: a row that is created carries the clock time of its creation in
\* created_at (so rows created at different times are ordered by it), and a
\* Search whose status is set carries the clock time of that change in
\* updated_at
C25_Timestamps ==
    [][/\ \A d \in Len(docs) + 1..Len(docs') : docs'[d].created_at = now'
       /\ \A sc \in Len(scans) + 1..Len(scans') : scans'[sc].created_at = now'
       /\ \A c \in Len(corpuses) + 1..Len(corpuses') : corpuses'[c].created_at = now'
       /\ \A s \in Len(searches) + 1..Len(searches') :
             /\ searches'[s].created_at = now'
             /\ searches'[s].updated_at = now'
       /\ \A s \in 1..Len(searches) :
             searches'[s].status # searches[s].status
                => searches'[s].updated_at = now']_vars

\* C26: when no load is in progress, GET and DELETE /search/<guid> for a
\* guid that matches no Search are answered 404
C26_NotFound ==
    [][\A guid \in 1..MaxSearches :
          (/\ http_get_search(guid) \/ http_delete_search(guid)
           /\ ~loading /\ ~LoadInProgress
           /\ Search_get(guid) = 0)
             => httpStatus' = 404]_vars

\* C28: the progress of every Megadoc lies within 0.0 and 100.0 and never
\* decreases
C28_ProgressMonotone ==
    [][\A m \in 1..Len(megadocs') :
          /\ FracLeq(Frac(0, 1), megadocs'[m].progress)
          /\ FracLeq(megadocs'[m].progress, Frac(100, 1))
          /\ m <= Len(megadocs)
                => FracLeq(megadocs[m].progress, megadocs'[m].progress)]_vars

\* a Megadoc of two sections has been built to the end
C28_Witness ==
    \E m \in 1..Len(megadocs) :
       /\ megadocs[m].progress = Frac(100, 1)
       /\ Len(files[m]) = 2

\* C29: the update that follows the section of the Document at position i
\* (from 0) of n stores status STARTED and progress (i + 1) / n * 100
C29_ProgressPercent ==
    [][\A t \in 1..MaxTasks :
          (tasks[t].kind = "megadoc" /\ tasks[t].pc = "update" /\ tasks'[t] # tasks[t])
             => LET m == tasks[t].megadoc
                    percent == Frac((tasks[t].i + 1) * 100,
                                    SearchDocumentCount(tasks[t].search))
                IN /\ megadocs'[m].status = "STARTED"
                   /\ FracLeq(megadocs'[m].progress, percent)
                   /\ FracLeq(percent, megadocs'[m].progress)]_vars

\* C30: the file of a Megadoc never holds more than one section per Document
\* of its Search, the sections follow ascending created_at, the separator
\* is left out after the n-th section and only there, and status SENDING
\* and progress 100.0 are reached only with all n sections written
C30_Sections ==
    \A m \in 1..Len(megadocs) :
       LET n == SearchDocumentCount(megadocs[m].search)
           written == files[m]
       IN /\ Len(written) <= n
          /\ \A j \in 1..Len(written) :
                /\ written[j].doc \in Range(searches[megadocs[m].search].documents)
                /\ written[j].last <=> j = n
          /\ \A j, k \in 1..Len(written) :
                j < k => /\ written[j].doc # written[k].doc
                         /\ docs[written[j].doc].created_at
                               <= docs[written[k].doc].created_at
          /\ (megadocs[m].status \in {"SENDING", "SUCCESS"}
              \/ megadocs[m].progress = Frac(100, 1))
                => Len(written) = n

\* a finished Megadoc whose two Documents were found in the order opposite
\* to that of their creation
C30_Witness ==
    \E m \in 1..Len(megadocs) :
       /\ megadocs[m].status = "SENDING"
       /\ Len(files[m]) = 2
       /\ searches[megadocs[m].search].documents = <<files[m][2].doc, files[m][1].doc>>
       /\ docs[files[m][1].doc].created_at < docs[files[m][2].doc].created_at

\* C31: the status of a Megadoc becomes SUCCESS only from SENDING
C31_SuccessAfterSending ==
    [][\A m \in 1..Len(megadocs) :
          (megadocs'[m].status = "SUCCESS" /\ megadocs[m].status # "SUCCESS")
             => megadocs[m].status = "SENDING"]_vars

\* C32: import_documents commits after the file at position i (from 0) of n
\* exactly when i + 1 is a multiple of the batch size or i + 1 = n
C32_BatchCommits ==
    [][(imp.pc = "run" /\ imp'.pc = "run" /\ imp'.i = imp.i + 1)
          => ((imp'.docs = Len(docs') /\ imp'.scans = Len(scans'))
                 <=> \/ (imp.i + 1) % BatchSize = 0
                     \/ imp.i + 1 = Len(imp.files))]_vars
\* C33: when an attempt of a retried operation failed with a transient error
\* while a transaction was in progress on its session, the transaction has
\* been rolled back when the next attempt starts
C33_RollbackBeforeRetry ==
    [][\A t \in 1..MaxTasks :
          (sessions'[t].n = sessions[t].n
              /\ sessions'[t].attempt = sessions[t].attempt + 1)
             => ~sessions[t].tx]_vars

\* C34: the stored status of every Search and of every Megadoc is one of
\* PENDING, STARTED, SENDING, SUCCESS
C34_StatusInSet ==
    /\ \A s \in 1..Len(searches) : searches[s].status \in status_set
    /\ \A m \in 1..Len(megadocs) : megadocs[m].status \in status_set

\* C35: every call of init_database returns, with the engine initialized,
\* the schema created and db_lock released
C35_InitTerminates ==
    (startup.call = "init_database" /\ startup.pc = "lock")
       ~> (startup.call = "init_database" /\ startup.pc = "returned"
              /\ startup.engine /\ startup.schema /\ db_lock # Starter)

\* C36: a call of create_search that has made its Search row makes no
\* other, and the rows that a call of import_documents has committed hold
\* each of its files at most once
C36_OncePerCall ==
    [][/\ (\E t \in 1..MaxTasks : Running(t) /\ tasks[t].kind = "search")
            => Len(searches') = Len(searches)
       /\ \A f \in FileNames :
             Cardinality({d \in imp'.start + 1 .. imp'.docs :
                              docs'[d].stem = f.stem})
                <= Cardinality({k \in 1..Len(imp'.files) : imp'.files[k] = f})]_vars

\* C37: whenever the flag loading is set, it is cleared later on
C37_FlagCleared == loading ~> ~loading

\* C38: once search_to_megadocs has a Search without Documents, it goes on
\* without raising; the Search is SUCCESS, it gets no Megadoc and nothing
\* is uploaded
C38_NoMatchEndsNormally ==
    [][\A s \in 1..Len(searches) :
          (pipe.search = s /\ pipe.pc \in {"loop", "build", "upload"}
              /\ searches[s].documents = <<>>)
             => /\ pipe'.pc # "raised"
                /\ searches'[s].status = "SUCCESS"
                /\ searches'[s].documents = <<>>
                /\ SearchMegadocs(s)' = {}
                /\ bucket' = bucket]_vars

\* C39: when create_megadoc raises NotImplementedError for its filetype,
\* the Search has no Megadoc of that filetype
C39_UnsupportedLeavesNoRow ==
    [][\A t \in 1..MaxTasks :
          (tasks[t].kind = "megadoc" /\ Running(t) /\ tasks'[t].pc = "failed"
              /\ tasks'[t].err = "NotImplementedError")
             => \A m \in 1..Len(megadocs') :
                   megadocs'[m].search = tasks[t].search
                      => megadocs'[m].filetype # tasks[t].filetype]_vars

\* C40: when create_index has run, every guid in the index is the guid of
\* an existing Document that is in the Corpus the run has made, and no entry
\* of the index that was there before is left for a Document that is gone
C40_IndexRebuilt ==
    [][Len(corpuses') = Len(corpuses) + 1
          => /\ \A g \in index' :
                   /\ g \in LiveDocs'
                   /\ g \in Range(corpuses'[Len(corpuses')].documents)
             /\ \A g \in index \ LiveDocs : g \notin index']_vars

\* the index has been rebuilt after a Document that the previous index held
\* was deleted, and holds the Documents that are left
C40_Witness ==
    /\ Len(corpuses) = 2
    /\ index # {}
    /\ \E g \in Range(corpuses[1].documents) :
          g \notin LiveDocs /\ g \notin Range(corpuses[2].documents)

====
